---- MODULE Spec2Model ----
(***************************************************************************)
(* Model of the OBS recording-session orchestration of                     *)
(* careless_whisper_client: RecordAndSendController (record_and_send.py)   *)
(* and the connection lifecycle of OBSController (obs_controller.py).      *)
(*                                                                         *)
(* Three flows touch the controller's fields without any lock:             *)
(*   - the calling flow, running start_and_wait_for_stop step by step;     *)
(*   - the library's event-delivery thread, running                        *)
(*     _on_record_state_changed (two separate attribute writes);           *)
(*   - the daemon threads started for stop_on_enter, one per invocation    *)
(*     with stop_from_cli, which outlive the invocation that started them. *)
(* Each action below is one stretch of code between two points where the   *)
(* interpreter can switch threads.                                         *)
(***************************************************************************)
EXTENDS Integers, Sequences, FiniteSets

----------------------------------------------------------------------------
(* Program constants *)

OBS_OUTPUT_STOPPED == "OBS_WEBSOCKET_OUTPUT_STOPPED"
DEFAULT_TIMEOUT_SECONDS == 3600
\* resp.text[:500] in the error message of send_file_to_api
BodyPrefix == 500

(* Python's None, for the attributes and for the values a datain dict lacks *)
None == "None"

----------------------------------------------------------------------------
(* Bounds *)

\* number of start_and_wait_for_stop invocations explored on one controller
MaxSessions == 2
\* number of invocations explored when checking that a wait ends
MaxLiveSessions == 1
\* the clock is followed second by second up to here, then jumps to the deadline
TickFine == 1

\* number of store_transcription calls that return followed
MaxRecords == 2
\* number of store_transcription calls followed: one of them can fail
\* between those that return
MaxStores == MaxRecords + 1
\* seconds by which CURRENT_TIMESTAMP advances
MaxClock == 1

\* timeout_seconds arguments tried: <<>> is "not passed" (None), <<n>> is n
TimeoutArgs == {<<>>, <<0>>, <<1>>}

\* outputPath values an event can carry (None: key missing)
PathVals == {None, "", "/tmp/a.wav", "/tmp/b.wav"}
\* RecordStateChanged messages: datain is either empty or a dict
NoData == [data |-> FALSE, outputPath |-> None, outputState |-> None]
Ev(p, st) == [data |-> TRUE, outputPath |-> p, outputState |-> st]
\* the messages tried: every outputPath with the stop state, and one message
\* that carries a path with another state
Events == {NoData, Ev("/tmp/a.wav", "OBS_WEBSOCKET_OUTPUT_STOPPING")} \cup
          {Ev(p, OBS_OUTPUT_STOPPED) : p \in PathVals}

NoEvent == [data |-> FALSE, outputPath |-> "-", outputState |-> "-"]

\* send_file_to_api: values of api_url and of RECORD_SEND_API_URL, of token and
\* of RECORD_SEND_API_TOKEN (None: not given, not set)
UrlVals == {None, "", "http://api/transcribe"}
TokenVals == {None, "", "secret"}
\* HTTP status codes of the final response
StatusCodes == {200, 204, 304, 404, 500}
\* response bodies, as sequences of characters: empty, "oops", and bodies of
\* exactly, and one more than, the length the error message keeps
Chars(n, c) == [i \in 1..n |-> c]
Bodies == {<<>>, <<"o", "o", "p", "s">>, Chars(BodyPrefix, "x"), Chars(BodyPrefix + 1, "x")}
\* what requests.post does: raises a requests.RequestException, or returns
\* a response
NetFailure == [raised |-> TRUE, status_code |-> 0, text |-> <<>>]
Response(st, body) == [raised |-> FALSE, status_code |-> st, text |-> body]
NetOutcomes == {NetFailure} \cup {Response(st, b) : st \in StatusCodes, b \in Bodies}

Sessions == 1..MaxSessions

\* a key of a JSON object: absent, present with null, or present with a value
NoField(v) == [has |-> FALSE, null |-> FALSE, v |-> v]
NullField(v) == [has |-> TRUE, null |-> TRUE, v |-> v]
Field(v) == [has |-> TRUE, null |-> FALSE, v |-> v]
\* a segment of a response; its "id" stands for the columns of the segments
\* table that are NOT NULL
Seg(id) == [id |-> id]
Resp(text, segments) == [transcription |-> text, segments |-> segments]
\* the responses tried: segments out of order, a segment without "id" after
\* one with it, no segments, a null in the second segment, a null
\* transcription
Responses ==
  { Resp(Field("hola"), <<Seg(Field(2)), Seg(Field(1))>>),
    Resp(NoField(""), <<Seg(Field(1)), Seg(NoField(0))>>),
    Resp(Field("adios"), <<>>),
    Resp(Field("hola"), <<Seg(Field(1)), Seg(NullField(0))>>),
    Resp(NullField(""), <<Seg(Field(1))>>) }
\* the documents a reply of the transcription service can carry: the
\* members "transcription" and "segments" of its JSON object
Document(name) ==
  CASE name = "d1" -> Resp(Field("hola"), <<Seg(Field(2)), Seg(Field(1))>>)
    [] name = "d2" -> Resp(Field("hola"), <<Seg(Field(1)), Seg(NullField(0))>>)
    [] name = "d3" -> Resp(NullField(""), <<Seg(Field(1))>>)
    [] OTHER -> Resp(NoField(""), <<>>)
\* reply bodies tried with translate, as sequences of tokens: an empty body,
\* text that is not JSON, a JSON array, an object cut short, objects without
\* "status", with another status, and with status "success" with no other
\* member and around each document
JsonBodies ==
  { <<>>, <<"o", "o", "p", "s">>, <<"[", "]">>, <<"{", "status", "success">>,
    <<"{", "data", "d1", "}">>, <<"{", "status", "error", "data", "d1", "}">>,
    <<"{", "status", "success", "}">> } \cup
  { <<"{", "status", "success", "data", d, "}">> : d \in {"d1", "d2", "d3"} }
\* what requests.post does in translate
JsonOutcomes == {NetFailure} \cup {Response(st, b) : st \in StatusCodes, b \in JsonBodies}
\* --limit values of list-transcriptions (click type=int)
Limits == {-1, 0, 1, 2}
\* --id values of get-transcription
GetIds == 0..MaxRecords

----------------------------------------------------------------------------
VARIABLES
  \* RecordAndSendController attributes
  ws,                  \* "None" or "obj": self.ws
  wsOpen,              \* the socket of the current ws object is connected
  connected,           \* self.connected
  recorded_file_path,  \* self.recorded_file_path
  recording_stopped,   \* self.recording_stopped
  registered,          \* entries (callback, RecordStateChanged) held by ws
  \* calling flow inside start_and_wait_for_stop
  pc,                  \* position of the calling flow
  timeout_seconds,     \* local: effective timeout
  stop_from_cli,       \* local: argument
  elapsed,             \* time.monotonic() minus its value at line 251
  session,             \* invocations begun so far
  outcome,             \* how the last invocation ended
  result,              \* value returned by the last invocation
  \* event-delivery thread
  hpc,                 \* position inside _on_record_state_changed
  hev,                 \* message being handled, or the last one handled
  \* stop_on_enter threads, by invocation ("none": not started, or ended)
  mpc,
  \* remote application
  remoteActive,        \* OBS output active
  \* OBSController attributes
  oc_ws, oc_wsOpen, oc_connected,
  oc_last,             \* observation: last OBSController operation and its result
  \* observation (history) variables
  stopCalls,           \* StopRecord requests sent since the invocation began
  enterFired,          \* some input() has returned
  deliveredStopped,    \* non-empty paths of stop events delivered during the invocation
  prePath, preFlag,    \* attributes as they were when the invocation began
  \* the record command (record_and_send.py) and main (obs_controller.py)
  cmd,                 \* position of the record command
  cmdOut,              \* how the record command ended
  oc_cmd,              \* position of main
  \* send_file_to_api
  up_in,               \* arguments and environment of the last call
  up_out,              \* what the last call returned or raised
  \* the SQLite database and store_transcription
  db,                  \* committed content: file exists, rows of the two tables
  clock,               \* CURRENT_TIMESTAMP, in seconds
  st_pc,               \* position of store_transcription
  st_resp,             \* its response_data
  st_i,                \* index of the next segment to insert
  tx_t, tx_s,          \* rows inserted in the open transaction
  st_out,              \* what the last store_transcription returned or raised
  stores,              \* calls of store_transcription begun
  q,                   \* last list-transcriptions or get-transcription and its output
  stored,              \* observation: ids returned, each with the response stored
  \* the translate command
  tr_pc,               \* position of the command
  tr_out               \* how the last run of the command ended

ctrlVars == <<ws, wsOpen, connected, recorded_file_path, recording_stopped, registered>>
flowVars == <<pc, timeout_seconds, stop_from_cli, elapsed, session, outcome, result>>
handlerVars == <<hpc, hev>>
ocVars == <<oc_ws, oc_wsOpen, oc_connected>>
ocAll == <<ocVars, oc_last>>
histVars == <<stopCalls, enterFired, deliveredStopped, prePath, preFlag>>
\* everything the controllers and their threads touch
obsVars == <<ctrlVars, flowVars, handlerVars, mpc, remoteActive, ocAll, histVars>>
cmdVars == <<cmd, cmdOut, oc_cmd>>
upVars == <<up_in, up_out>>
\* what a method of a controller, called on its own, leaves alone
dbVars == <<db, clock, st_pc, st_resp, st_i, tx_t, tx_s, st_out, stores, q, stored>>
\* what the record command, main and send_file_to_api leave alone besides
\* the controllers
trVars == <<tr_pc, tr_out>>
notRec == <<oc_cmd, upVars, dbVars, trVars>>
notMain == <<cmd, cmdOut, upVars, dbVars, trVars>>
extVars == <<cmdVars, upVars, dbVars, trVars>>
vars == <<obsVars, extVars>>

----------------------------------------------------------------------------
(* Pure helpers *)

\* Python truthiness of an outputPath value
Truthy(p) == p # None /\ p # ""

\* get_event_output_path: (outputPath, outputState), or (None, None) when
\* the message has no datain
get_event_output_path(message) ==
  IF ~message.data THEN <<None, None>>
  ELSE <<message.outputPath, message.outputState>>

\* variant: the callback looks at the path only
HandlerAccepts_AnyState(output_path, output_state) == Truthy(output_path)

\* variant: the callback looks at the state only
HandlerAccepts_AnyPath(output_path, output_state) ==
  output_state = OBS_OUTPUT_STOPPED

\* the condition of _on_record_state_changed
HandlerAccepts(output_path, output_state) ==
  output_state = OBS_OUTPUT_STOPPED /\ Truthy(output_path)

\* timeout_seconds = timeout_seconds or DEFAULT_TIMEOUT_SECONDS
EffectiveTimeout(arg) ==
  IF arg = <<>> \/ arg = <<0>> THEN DEFAULT_TIMEOUT_SECONDS ELSE arg[1]

\* variant: the loop waits for the flag only
LoopContinues_NoDeadline(flag, el, to) == ~flag

\* the condition of the polling loop
LoopContinues(flag, el, to) == ~flag /\ el < to

\* variant: the callback stays in the list
AfterUnregister_Keeps(n) == n

\* entries left in the library's list by _unregister_record_callback
AfterUnregister(n) == 0

\* Python's "a or b" on strings and None
PyOr(a, b) == IF Truthy(a) THEN a ELSE b

\* Python's text[:n]
Prefix(text, n) == SubSeq(text, 1, IF Len(text) < n THEN Len(text) ELSE n)

\* requests.Response.ok: raise_for_status() raises for 400 <= status < 600
RespOk(status_code) == ~(400 <= status_code /\ status_code < 600)

\* what send_file_to_api gives back. kind: "response" (True, resp), or one
\* of the failures (False, message): "nofile", "nourl", "api" (status and
\* body prefix), "transport" (str(e)); or "OSError", raised by open() and
\* not caught. posts counts the calls of requests.post, auth tells whether
\* the Authorization header was sent.
UpResult(ok, kind, st, body, n, auth) ==
  [ok |-> ok, kind |-> kind, status_code |-> st, text |-> body, posts |-> n,
   auth |-> auth]

\* variant: the URL is looked at before the file
send_file_to_api_UrlFirst(is_file, readable, api_url, env_url, token, env_token, net) ==
  LET url == PyOr(api_url, env_url)
      tok == PyOr(token, env_token)
  IN IF ~Truthy(url) THEN UpResult(FALSE, "nourl", 0, <<>>, 0, FALSE)
     ELSE IF ~is_file THEN UpResult(FALSE, "nofile", 0, <<>>, 0, FALSE)
     ELSE IF ~readable THEN UpResult(FALSE, "OSError", 0, <<>>, 0, FALSE)
     ELSE IF net.raised THEN UpResult(FALSE, "transport", 0, <<>>, 1, Truthy(tok))
     ELSE IF RespOk(net.status_code)
       THEN UpResult(TRUE, "response", net.status_code, net.text, 1, Truthy(tok))
       ELSE UpResult(FALSE, "api", net.status_code, Prefix(net.text, BodyPrefix),
                     1, Truthy(tok))

\* send_file_to_api, lines 266-291
send_file_to_api(is_file, readable, api_url, env_url, token, env_token, net) ==
  LET url == PyOr(api_url, env_url)
      tok == PyOr(token, env_token)
  IN IF ~is_file THEN UpResult(FALSE, "nofile", 0, <<>>, 0, FALSE)
     ELSE IF ~Truthy(url) THEN UpResult(FALSE, "nourl", 0, <<>>, 0, FALSE)
     ELSE IF ~readable THEN UpResult(FALSE, "OSError", 0, <<>>, 0, FALSE)
     ELSE IF net.raised THEN UpResult(FALSE, "transport", 0, <<>>, 1, Truthy(tok))
     ELSE IF RespOk(net.status_code)
       THEN UpResult(TRUE, "response", net.status_code, net.text, 1, Truthy(tok))
       ELSE UpResult(FALSE, "api", net.status_code, Prefix(net.text, BodyPrefix),
                     1, Truthy(tok))

\* every outcome send_file_to_api can have
SendResults ==
  {send_file_to_api(f, r, u, eu, t, et, n) :
     f \in BOOLEAN, r \in BOOLEAN, u \in UrlVals, eu \in UrlVals,
     t \in TokenVals, et \in TokenVals, n \in NetOutcomes}

NoCall == [is_file |-> FALSE, readable |-> FALSE, api_url |-> "-", env_url |-> "-",
           token |-> "-", env_token |-> "-", net |-> NetFailure]
NoResult == UpResult(FALSE, "none", 0, <<>>, 0, FALSE)

\* dict.get(key, default): the default only when the key is absent
DictGet(field, default) ==
  IF field.has THEN [null |-> field.null, v |-> field.v]
  ELSE [null |-> FALSE, v |-> default]

\* rows of the tables transcriptions and segments
TRow(id, text, created_at) == [id |-> id, transcription |-> text, created_at |-> created_at]
SRow(id, transcription_id, segment_id) ==
  [id |-> id, transcription_id |-> transcription_id, segment_id |-> segment_id]

\* variant: the id of a new row is the largest id in the table
NextRowId_Reuse(rows) == IF rows = <<>> THEN 1 ELSE rows[Len(rows)].id

\* INTEGER PRIMARY KEY AUTOINCREMENT on tables no row is ever deleted from:
\* one more than the largest id (rows are kept in id order)
NextRowId(rows) == IF rows = <<>> THEN 1 ELSE rows[Len(rows)].id + 1

\* variant: the two id columns change places
SegmentRow_Swapped(rowid, transcription_id, segment) ==
  SRow(rowid, DictGet(segment.id, 0).v, transcription_id)

\* lines 117-126: the row inserted for a segment
SegmentRow(rowid, transcription_id, segment) ==
  SRow(rowid, transcription_id, DictGet(segment.id, 0).v)

\* variant: what was inserted before the exception is committed
AfterFailure_Commits(d, pt, ps) == [d EXCEPT !.t = @ \o pt, !.s = @ \o ps]

\* store_transcription has no except or finally clause: an exception leaves
\* it before conn.commit(), and the open transaction is rolled back when the
\* connection goes away
AfterFailure(d, pt, ps) == d

\* the orders in which rows can come out of a query sorted by keys[i], the
\* sort key of rows[i], ascending (desc = FALSE) or descending; rows with
\* equal keys in any order
Perms(n) == {p \in [1..n -> 1..n] : \A i, j \in 1..n : i # j => p[i] # p[j]}
Sorted(rows, keys, desc) ==
  { [i \in 1..Len(rows) |-> rows[p[i]]] : p \in
      { pp \in Perms(Len(rows)) :
          \A i, j \in 1..Len(rows) :
            i < j => IF desc THEN keys[pp[i]] >= keys[pp[j]]
                             ELSE keys[pp[i]] <= keys[pp[j]] } }
CreatedAt(rows) == [i \in 1..Len(rows) |-> rows[i].created_at]
SegmentId(rows) == [i \in 1..Len(rows) |-> rows[i].segment_id]

\* SQLite's LIMIT: a negative limit is no limit
Limit(rows, n) ==
  IF n < 0 \/ n >= Len(rows) THEN rows ELSE SubSeq(rows, 1, n)

\* variant: get-transcription reads the segments in table order
SegmentsOf_TableOrder(d, transcription_id) ==
  LET mine(r) == r.transcription_id = transcription_id
  IN {SelectSeq(d.s, mine)}

\* lines 620-626: SELECT ... FROM segments WHERE transcription_id = ?
\* ORDER BY segment_id (SelectSeq: the rows that satisfy the WHERE clause)
SegmentsOf(d, transcription_id) ==
  LET mine(r) == r.transcription_id = transcription_id
      rows == SelectSeq(d.s, mine)
  IN Sorted(rows, SegmentId(rows), FALSE)

\* the value of a member of a JSON object given as tokens
Member(text, key) ==
  IF \E i \in 1..(Len(text) - 1) : text[i] = key
    THEN Field(text[(CHOOSE i \in 1..(Len(text) - 1) : text[i] = key) + 1])
    ELSE NoField("")

\* result.json(): the value the body stands for, or a JSONDecodeError for a
\* body that is not one JSON value
json(text) ==
  IF Len(text) >= 2 /\ text[1] = "[" /\ text[Len(text)] = "]"
    THEN [raised |-> FALSE, object |-> FALSE, status |-> NoField(""),
          data |-> Document("")]
  ELSE IF Len(text) >= 2 /\ text[1] = "{" /\ text[Len(text)] = "}"
    THEN [raised |-> FALSE, object |-> TRUE, status |-> Member(text, "status"),
          data |-> Document(Member(text, "data").v)]
  ELSE [raised |-> TRUE, object |-> FALSE, status |-> NoField(""),
        data |-> Document("")]

NoDb == [exists |-> FALSE, t |-> <<>>, s |-> <<>>]
NoResp == Resp(NoField(""), <<>>)
NoStore == [kind |-> "none", id |-> 0, at |-> 0]
NoQuery == [op |-> "none", arg |-> 0, found |-> FALSE, rows |-> <<>>, segs |-> <<>>]

----------------------------------------------------------------------------
Init ==
  /\ ws = "None" /\ wsOpen = FALSE /\ connected = FALSE
  /\ recorded_file_path = None /\ recording_stopped = FALSE
  /\ registered = 0
  /\ pc = "idle" /\ timeout_seconds = 0 /\ stop_from_cli = FALSE
  /\ elapsed = 0 /\ session = 0 /\ outcome = "none" /\ result = None
  /\ hpc = "idle" /\ hev = NoEvent
  /\ mpc = [s \in Sessions |-> "none"]
  /\ remoteActive = FALSE
  /\ oc_ws = "None" /\ oc_wsOpen = FALSE /\ oc_connected = FALSE
  /\ oc_last = "none"
  /\ stopCalls = 0 /\ enterFired = FALSE
  /\ deliveredStopped = {} /\ prePath = None /\ preFlag = FALSE
  /\ cmd = "none" /\ cmdOut = "none" /\ oc_cmd = "none"
  /\ up_in = NoCall /\ up_out = NoResult
  /\ db = NoDb /\ clock = 0
  /\ st_pc = "idle" /\ st_resp = NoResp /\ st_i = 0
  /\ tx_t = <<>> /\ tx_s = <<>>
  /\ st_out = NoStore /\ stores = 0
  /\ q = NoQuery /\ stored = <<>>
  /\ tr_pc = "none" /\ tr_out = "none"

----------------------------------------------------------------------------
(* RecordAndSendController: connection lifecycle *)

\* connect(): a new obsws object replaces self.ws, then ws.connect() either
\* succeeds (connected = True) or raises (ClickException to the caller)
Connect ==
  /\ pc = "idle"
  /\ ws' = "obj"
  /\ registered' = 0
  /\ \E ok \in BOOLEAN :
       IF ok THEN wsOpen' = TRUE /\ connected' = TRUE
             ELSE wsOpen' = FALSE /\ UNCHANGED connected
  /\ UNCHANGED <<recorded_file_path, recording_stopped, flowVars, handlerVars,
                 mpc, remoteActive, ocAll, histVars>>

\* disconnect(): the library call may raise; the exception is swallowed and
\* connected is cleared after the try statement
Disconnect ==
  /\ pc = "idle"
  /\ IF ws # "None" /\ connected
       THEN /\ \E raises \in BOOLEAN :
                 wsOpen' = IF raises THEN wsOpen ELSE FALSE
            /\ connected' = FALSE
       ELSE UNCHANGED <<wsOpen, connected>>
  /\ UNCHANGED <<ws, recorded_file_path, recording_stopped, registered, flowVars,
                 handlerVars, mpc, remoteActive, ocAll, histVars>>

----------------------------------------------------------------------------
(* start_and_wait_for_stop, the calling flow *)

\* the function's locals and the observations of the invocation end with it
Leave ==
  /\ pc' = "idle"
  /\ timeout_seconds' = 0
  /\ stop_from_cli' = FALSE
  /\ elapsed' = 0
  /\ deliveredStopped' = {}
  /\ prePath' = None
  /\ preFlag' = FALSE

\* lines 217-222: the connection check, the timeout default and the reset of
\* the two attributes
S_Begin(arg, cli) ==
  /\ pc = "idle"
  /\ session < MaxSessions
  /\ session' = session + 1
  /\ result' = None
  /\ IF ~connected
       THEN /\ outcome' = "NotConnected"
            /\ UNCHANGED <<pc, timeout_seconds, stop_from_cli, recorded_file_path,
                           recording_stopped, histVars>>
       ELSE /\ outcome' = "running"
            /\ pc' = "status"
            /\ timeout_seconds' = EffectiveTimeout(arg)
            /\ stop_from_cli' = cli
            /\ recorded_file_path' = None
            /\ recording_stopped' = FALSE
            /\ prePath' = recorded_file_path
            /\ preFlag' = recording_stopped
            /\ stopCalls' = 0
            /\ deliveredStopped' = {}
            /\ UNCHANGED enterFired
  /\ UNCHANGED <<ws, wsOpen, connected, registered, elapsed, handlerVars, mpc,
                 remoteActive, ocAll>>

\* lines 224-229: GetRecordStatus; both the failed call and the "already
\* recording" ClickException leave through the except clause
S_Status ==
  /\ pc = "status"
  /\ \E raises \in BOOLEAN :
       /\ wsOpen \/ raises
       /\ IF raises
            THEN outcome' = "VerifyError" /\ Leave
            ELSE IF remoteActive
                   THEN outcome' = "AlreadyRecording" /\ Leave
                   ELSE /\ pc' = "register"
                        /\ prePath' = None /\ preFlag' = FALSE
                        /\ UNCHANGED <<outcome, timeout_seconds, stop_from_cli,
                                       elapsed, deliveredStopped>>
  /\ UNCHANGED <<ctrlVars, session, result, handlerVars, mpc, remoteActive,
                 ocAll, stopCalls, enterFired>>

\* variant: the flow goes on to StartRecord without registering
S_Register_Skips ==
  /\ pc = "register"
  /\ pc' = "start"
  /\ UNCHANGED <<ws, wsOpen, connected, recorded_file_path, recording_stopped,
                 registered, timeout_seconds, stop_from_cli, elapsed, session,
                 outcome, result, handlerVars, mpc, remoteActive, ocAll, histVars>>

\* line 231: ws.register(self._on_record_state_changed, RecordStateChanged)
S_Register ==
  /\ pc = "register"
  /\ registered' = registered + 1
  /\ pc' = "start"
  /\ UNCHANGED <<ws, wsOpen, connected, recorded_file_path, recording_stopped,
                 timeout_seconds, stop_from_cli, elapsed, session, outcome,
                 result, handlerVars, mpc, remoteActive, ocAll, histVars>>

\* lines 232-236: StartRecord; on an exception the callback is unregistered
\* and a ClickException is raised
S_Start ==
  /\ pc = "start"
  /\ \E raises \in BOOLEAN :
       /\ wsOpen \/ raises
       /\ IF raises
            THEN /\ registered' = AfterUnregister(registered)
                 /\ outcome' = "StartFailed"
                 /\ Leave
                 /\ UNCHANGED remoteActive
            ELSE /\ remoteActive' = TRUE
                 /\ pc' = "spawn"
                 /\ UNCHANGED <<registered, outcome, timeout_seconds,
                                stop_from_cli, elapsed, deliveredStopped,
                                prePath, preFlag>>
  /\ UNCHANGED <<ws, wsOpen, connected, recorded_file_path, recording_stopped,
                 session, result, handlerVars, mpc, ocAll, stopCalls, enterFired>>

\* lines 238-251: the daemon thread for stop_on_enter is started when
\* stop_from_cli, then the deadline is taken
S_Spawn ==
  /\ pc = "spawn"
  /\ mpc' = IF stop_from_cli THEN [mpc EXCEPT ![session] = "input"] ELSE mpc
  /\ stop_from_cli' = FALSE
  /\ elapsed' = 0
  /\ pc' = "wait"
  /\ UNCHANGED <<ctrlVars, timeout_seconds, session, outcome, result,
                 handlerVars, remoteActive, ocAll, histVars>>

\* lines 252-253: the loop is left when its condition is false (an iteration
\* that sleeps changes nothing)
S_Poll ==
  /\ pc = "wait"
  /\ ~LoopContinues(recording_stopped, elapsed, timeout_seconds)
  /\ pc' = "unreg"
  /\ timeout_seconds' = 0
  /\ elapsed' = 0
  /\ UNCHANGED <<ctrlVars, stop_from_cli, session, outcome, result,
                 handlerVars, mpc, remoteActive, ocAll, histVars>>

\* time.monotonic() advances while the flow sleeps in the loop
Tick ==
  /\ pc = "wait"
  /\ elapsed < timeout_seconds
  /\ elapsed' = IF elapsed < TickFine THEN elapsed + 1 ELSE timeout_seconds
  /\ UNCHANGED <<ctrlVars, pc, timeout_seconds, stop_from_cli, session, outcome,
                 result, handlerVars, mpc, remoteActive, ocAll, histVars>>

\* a KeyboardInterrupt raised in time.sleep (line 253) leaves the function:
\* nothing in it catches the exception
Interrupt ==
  /\ pc = "wait"
  /\ outcome' = "Interrupted"
  /\ Leave
  /\ UNCHANGED <<ctrlVars, session, result, handlerVars, mpc, remoteActive,
                 ocAll, stopCalls, enterFired>>

\* line 254: _unregister_record_callback after the loop
S_Unreg ==
  /\ pc = "unreg"
  /\ registered' = AfterUnregister(registered)
  /\ pc' = "final"
  /\ UNCHANGED <<ws, wsOpen, connected, recorded_file_path, recording_stopped,
                 timeout_seconds, stop_from_cli, elapsed, session, outcome,
                 result, handlerVars, mpc, remoteActive, ocAll, histVars>>

\* variant: the timeout branch sends StopRecord before it returns None
S_CheckStopped_SendsStop ==
  /\ pc = "final"
  /\ IF ~recording_stopped
       THEN /\ outcome' = "Timeout"
            /\ stopCalls' = stopCalls + 1
            /\ remoteActive' = FALSE
            /\ Leave
       ELSE /\ pc' = "return"
            /\ UNCHANGED <<outcome, timeout_seconds, stop_from_cli, elapsed,
                           deliveredStopped, prePath, preFlag, stopCalls,
                           remoteActive>>
  /\ UNCHANGED <<ctrlVars, session, result, handlerVars, mpc, ocAll, enterFired>>

\* lines 256-258: the flag is read; when false the function returns None
S_CheckStopped ==
  /\ pc = "final"
  /\ IF ~recording_stopped
       THEN /\ outcome' = "Timeout"
            /\ Leave
       ELSE /\ pc' = "return"
            /\ UNCHANGED <<outcome, timeout_seconds, stop_from_cli, elapsed,
                           deliveredStopped, prePath, preFlag>>
  /\ UNCHANGED <<ctrlVars, session, result, handlerVars, mpc, remoteActive,
                 ocAll, stopCalls, enterFired>>

\* line 259: return self.recorded_file_path
S_ReturnPath ==
  /\ pc = "return"
  /\ outcome' = "Stopped"
  /\ result' = recorded_file_path
  /\ Leave
  /\ UNCHANGED <<ctrlVars, session, handlerVars, mpc, remoteActive, ocAll,
                 stopCalls, enterFired>>

\* _unregister_record_callback called once more by the caller, outside an
\* invocation
UnregisterAgain ==
  /\ pc = "idle"
  /\ registered' = IF ws = "None" THEN registered ELSE AfterUnregister(registered)
  /\ UNCHANGED <<ws, wsOpen, connected, recorded_file_path, recording_stopped,
                 flowVars, handlerVars, mpc, remoteActive, ocAll, histVars>>

----------------------------------------------------------------------------
(* The library's event-delivery thread *)

\* a RecordStateChanged message arrives on the open connection and the
\* library calls the registered callback (an entry present at that moment)
H_Deliver(e) ==
  /\ hpc = "idle"
  /\ wsOpen
  /\ registered > 0
  /\ hpc' = "called"
  /\ hev' = e
  /\ deliveredStopped' =
       IF pc # "idle" /\ e.data /\ e.outputState = OBS_OUTPUT_STOPPED
          /\ Truthy(e.outputPath)
         THEN deliveredStopped \cup {e.outputPath}
         ELSE deliveredStopped
  /\ UNCHANGED <<ctrlVars, flowVars, mpc, remoteActive, ocAll, stopCalls,
                 enterFired, prePath, preFlag>>

\* _on_record_state_changed, lines 206-208: the condition and the write of
\* recorded_file_path
H_Guard ==
  /\ hpc = "called"
  /\ LET r == get_event_output_path(hev) IN
       IF HandlerAccepts(r[1], r[2])
         THEN /\ recorded_file_path' = r[1]
              /\ hpc' = "flag"
         ELSE /\ hpc' = "idle"
              /\ UNCHANGED recorded_file_path
  /\ UNCHANGED <<ws, wsOpen, connected, recording_stopped, registered, flowVars, hev,
                 mpc, remoteActive, ocAll, stopCalls, enterFired,
                 deliveredStopped, prePath, preFlag>>

\* _on_record_state_changed, line 209: the write of recording_stopped
H_Flag ==
  /\ hpc = "flag"
  /\ recording_stopped' = TRUE
  /\ hpc' = "idle"
  /\ UNCHANGED <<ws, wsOpen, connected, recorded_file_path, registered, flowVars,
                 hev, mpc, remoteActive, ocAll, histVars>>

----------------------------------------------------------------------------
(* stop_on_enter, one daemon thread per invocation with stop_from_cli *)

\* line 242: input() returns
M_Enter(s) ==
  /\ mpc[s] = "input"
  /\ mpc' = [mpc EXCEPT ![s] = "check"]
  /\ enterFired' = TRUE
  /\ UNCHANGED <<ctrlVars, flowVars, handlerVars, remoteActive, ocAll,
                 stopCalls, deliveredStopped, prePath, preFlag>>

\* line 243: not self.recording_stopped and self.ws and self.connected
M_Check(s) ==
  /\ mpc[s] = "check"
  /\ mpc' = [mpc EXCEPT ![s] =
               IF ~recording_stopped /\ ws # "None" /\ connected
                 THEN "call" ELSE "none"]
  /\ UNCHANGED <<ctrlVars, flowVars, handlerVars, remoteActive, ocAll, histVars>>

\* variant: the thread records the stop itself once it has asked for it
M_Call_SetsFlag(s) ==
  /\ mpc[s] = "call"
  /\ mpc' = [mpc EXCEPT ![s] = "none"]
  /\ \E raises \in BOOLEAN :
       /\ wsOpen \/ raises
       /\ remoteActive' = IF raises THEN remoteActive ELSE FALSE
  /\ stopCalls' = IF wsOpen /\ pc # "idle" THEN stopCalls + 1 ELSE stopCalls
  /\ recording_stopped' = TRUE
  /\ UNCHANGED <<ws, wsOpen, connected, recorded_file_path, registered, flowVars,
                 handlerVars, ocAll, enterFired, deliveredStopped, prePath, preFlag>>

\* lines 244-247: StopRecord, any exception swallowed; the request reaches
\* the remote only over an open connection
M_Call(s) ==
  /\ mpc[s] = "call"
  /\ mpc' = [mpc EXCEPT ![s] = "none"]
  /\ \E raises \in BOOLEAN :
       /\ wsOpen \/ raises
       /\ remoteActive' = IF raises THEN remoteActive ELSE FALSE
  /\ stopCalls' = IF wsOpen /\ pc # "idle" THEN stopCalls + 1 ELSE stopCalls
  /\ UNCHANGED <<ctrlVars, flowVars, handlerVars, ocAll, enterFired,
                 deliveredStopped, prePath, preFlag>>

----------------------------------------------------------------------------
(* The remote application *)

\* the operator starts or stops the recording from OBS itself
RemoteToggle ==
  /\ remoteActive' = ~remoteActive
  /\ UNCHANGED <<ctrlVars, flowVars, handlerVars, mpc, ocAll, histVars>>

----------------------------------------------------------------------------
(* OBSController *)

\* connect(): a failure ends in sys.exit(1) after self.ws was assigned
OC_Connect ==
  /\ oc_ws' = "obj"
  /\ \E ok \in BOOLEAN :
       IF ok THEN oc_wsOpen' = TRUE /\ oc_connected' = TRUE /\ oc_last' = "connect"
             ELSE oc_wsOpen' = FALSE /\ UNCHANGED oc_connected /\ oc_last' = "exit"
  /\ UNCHANGED <<ctrlVars, flowVars, handlerVars, mpc, remoteActive, histVars>>

\* disconnect(): connected is cleared inside the try statement, after the
\* library call, so an exception of the library call skips it
OC_Disconnect ==
  /\ IF oc_ws # "None" /\ oc_connected
       THEN \E raises \in BOOLEAN :
              IF raises
                THEN UNCHANGED <<oc_wsOpen, oc_connected>>
                ELSE oc_wsOpen' = FALSE /\ oc_connected' = FALSE
       ELSE UNCHANGED <<oc_wsOpen, oc_connected>>
  /\ oc_last' = "disconnect"
  /\ UNCHANGED <<oc_ws, ctrlVars, flowVars, handlerVars, mpc, remoteActive, histVars>>

\* start_recording(): False without a connection, when OBS is recording
\* already, or when a call raises; True after StartRecord
OC_StartRecording ==
  /\ IF ~oc_connected
       THEN oc_last' = "start:False" /\ UNCHANGED remoteActive
       ELSE \E raises \in BOOLEAN :
              /\ oc_wsOpen \/ raises
              /\ IF raises \/ remoteActive
                   THEN oc_last' = "start:False" /\ UNCHANGED remoteActive
                   ELSE oc_last' = "start:True" /\ remoteActive' = TRUE
  /\ UNCHANGED <<ocVars, ctrlVars, flowVars, handlerVars, mpc, histVars>>

\* stop_recording(): False without a connection, when OBS is not recording,
\* or when a call raises; True after StopRecord
OC_StopRecording ==
  /\ IF ~oc_connected
       THEN oc_last' = "stop:False" /\ UNCHANGED remoteActive
       ELSE \E raises \in BOOLEAN :
              /\ oc_wsOpen \/ raises
              /\ IF raises \/ ~remoteActive
                   THEN oc_last' = "stop:False" /\ UNCHANGED remoteActive
                   ELSE oc_last' = "stop:True" /\ remoteActive' = FALSE
  /\ UNCHANGED <<ocVars, ctrlVars, flowVars, handlerVars, mpc, histVars>>

\* get_recording_status(): None without a connection or when a call raises,
\* else whether OBS is recording
OC_GetStatus ==
  /\ IF ~oc_connected
       THEN oc_last' = "status:None"
       ELSE \E raises \in BOOLEAN :
              /\ oc_wsOpen \/ raises
              /\ oc_last' = IF raises THEN "status:None"
                            ELSE IF remoteActive THEN "status:True"
                            ELSE "status:False"
  /\ UNCHANGED <<ocVars, ctrlVars, flowVars, handlerVars, mpc, remoteActive, histVars>>

\* listen_events(): returns at once without a connection; else registers its
\* printing callback and sleeps until KeyboardInterrupt; an exception of
\* ws.register is caught and printed
OC_Listen ==
  /\ IF ~oc_connected
       THEN oc_last' = "listen:NotConnected"
       ELSE \E raises \in BOOLEAN :
              oc_last' = IF raises THEN "listen:Error" ELSE "listen:Interrupted"
  /\ UNCHANGED <<ocVars, ctrlVars, flowVars, handlerVars, mpc, remoteActive, histVars>>

----------------------------------------------------------------------------
(* send_file_to_api called on its own; the function keeps nothing from one *)
(* call to the next, and one call is followed                              *)

SendFile(is_file, readable, api_url, env_url, token, env_token, net) ==
  /\ up_out = NoResult
  /\ up_in' = [is_file |-> is_file, readable |-> readable, api_url |-> api_url,
               env_url |-> env_url, token |-> token, env_token |-> env_token,
               net |-> net]
  /\ up_out' = send_file_to_api(is_file, readable, api_url, env_url, token,
                                env_token, net)
  /\ UNCHANGED <<obsVars, cmdVars, dbVars, trVars>>

----------------------------------------------------------------------------
(* The record command of record_and_send.py, lines 340-368: one controller, *)
(* one invocation of start_and_wait_for_stop                                *)

\* line 351: ctrl.connect(); its ClickException ends the command before the
\* try statement
Rec_Connect ==
  /\ cmd = "none"
  /\ Connect
  /\ IF connected'
       THEN cmd' = "try" /\ UNCHANGED cmdOut
       ELSE cmd' = "failed" /\ cmdOut' = "ConnectFailed"
  /\ UNCHANGED notRec

\* lines 353-355: the call of start_and_wait_for_stop
Rec_Invoke(arg, cli) ==
  /\ cmd = "try"
  /\ S_Begin(arg, cli)
  /\ cmd' = "invoked"
  /\ UNCHANGED <<cmdOut, notRec>>

\* variant: the command goes on to the upload whatever the call returned
Rec_AfterWait_NoPathCheck ==
  /\ cmd = "invoked"
  /\ pc = "idle"
  /\ IF outcome \in {"Stopped", "Timeout"}
       THEN \E do_send \in BOOLEAN :
              IF do_send THEN cmd' = "send" /\ UNCHANGED cmdOut
                         ELSE cmd' = "finally" /\ cmdOut' = "Recorded"
       ELSE cmd' = "finally" /\ cmdOut' = "Raised"
  /\ UNCHANGED <<obsVars, notRec>>

\* lines 356-359: the call has returned or raised; without a path the
\* command raises, with one it goes on to the upload when --send was given
Rec_AfterWait ==
  /\ cmd = "invoked"
  /\ pc = "idle"
  /\ IF outcome \in {"Stopped", "Timeout"}
       THEN IF ~Truthy(result)
              THEN cmd' = "finally" /\ cmdOut' = "NoPath"
              ELSE \E do_send \in BOOLEAN :
                     IF do_send THEN cmd' = "send" /\ UNCHANGED cmdOut
                                ELSE cmd' = "finally" /\ cmdOut' = "Recorded"
       ELSE cmd' = "finally" /\ cmdOut' = "Raised"
  /\ UNCHANGED <<obsVars, notRec>>

\* lines 359-366: the upload; a failure raises a ClickException
Rec_Send ==
  /\ cmd = "send"
  /\ \E r \in SendResults :
       cmdOut' = IF r.ok THEN "Sent"
                 ELSE IF r.kind = "OSError" THEN "Raised"
                 ELSE "SendFailed"
  /\ cmd' = "finally"
  /\ UNCHANGED <<obsVars, notRec>>

\* lines 367-368: finally: ctrl.disconnect()
Rec_Finally ==
  /\ cmd = "finally"
  /\ Disconnect
  /\ cmd' = "done"
  /\ UNCHANGED <<cmdOut, notRec>>

----------------------------------------------------------------------------
(* main of obs_controller.py, lines 316-334, for the actions that connect *)

\* line 316: controller.connect(), which leaves through sys.exit(1) on failure
Main_Connect ==
  /\ oc_cmd = "none"
  /\ OC_Connect
  /\ oc_cmd' = IF oc_last' = "exit" THEN "exited" ELSE "try"
  /\ UNCHANGED notMain

\* lines 318-330: the action asked for
Main_Action ==
  /\ oc_cmd = "try"
  /\ OC_StartRecording \/ OC_StopRecording \/ OC_GetStatus \/ OC_Listen
  /\ oc_cmd' = "finally"
  /\ UNCHANGED notMain

\* lines 332-334: finally: controller.disconnect()
Main_Finally ==
  /\ oc_cmd = "finally"
  /\ OC_Disconnect
  /\ oc_cmd' = "done"
  /\ UNCHANGED notMain

----------------------------------------------------------------------------
(* The SQLite store: init_database, store_transcription, and the commands *)
(* list-transcriptions and get-transcription                              *)

notDb == <<obsVars, cmdVars, upVars>>

\* the wall clock behind CURRENT_TIMESTAMP
ClockTick ==
  /\ clock < MaxClock
  /\ clock' = clock + 1
  /\ UNCHANGED <<db, st_pc, st_resp, st_i, tx_t, tx_s, st_out, stores, q, stored, notDb>>

\* variant: the tables are created anew
init_database_Recreate ==
  /\ db' = [exists |-> TRUE, t |-> <<>>, s |-> <<>>]
  /\ UNCHANGED <<clock, st_pc, st_resp, st_i, tx_t, tx_s, st_out, stores, q, stored, notDb>>

\* init_database called on its own: the file and the tables are created when
\* missing, rows are not touched
init_database ==
  /\ db' = [db EXCEPT !.exists = TRUE]
  /\ UNCHANGED <<clock, st_pc, st_resp, st_i, tx_t, tx_s, st_out, stores, q, stored, notDb>>

\* the store has ended with an exception
StoreRaises(at) ==
  /\ db' = AfterFailure([db EXCEPT !.exists = TRUE], tx_t, tx_s)
  /\ st_out' = [kind |-> "raised", id |-> 0, at |-> at]
  /\ st_pc' = "idle" /\ st_resp' = NoResp /\ st_i' = 0
  /\ tx_t' = <<>> /\ tx_s' = <<>>

\* lines 98-113: init_database, then the INSERT of the parent row, which
\* fails on a null transcription (NOT NULL) or for a reason of its own
Store_Begin(response_data) ==
  /\ st_pc = "idle"
  /\ stores < MaxStores
  /\ Len(stored) < MaxRecords
  /\ stores' = stores + 1
  /\ LET text == DictGet(response_data.transcription, "") IN
       \E fails \in BOOLEAN :
         /\ text.null => fails
         /\ IF fails
              THEN StoreRaises(0)
              ELSE /\ db' = [db EXCEPT !.exists = TRUE]
                   /\ tx_t' = <<TRow(NextRowId(db.t), text.v, clock)>>
                   /\ tx_s' = <<>>
                   /\ st_pc' = "segments" /\ st_resp' = response_data /\ st_i' = 1
                   /\ UNCHANGED st_out
  /\ UNCHANGED <<clock, q, stored, notDb>>

\* lines 115-126: the INSERT of the next segment, with transcription_id =
\* cursor.lastrowid; it fails on a null (NOT NULL) or for a reason of its own
Store_Segment ==
  /\ st_pc = "segments"
  /\ st_i <= Len(st_resp.segments)
  /\ LET segment == st_resp.segments[st_i] IN
       \E fails \in BOOLEAN :
         /\ DictGet(segment.id, 0).null => fails
         /\ IF fails
              THEN StoreRaises(st_i)
              ELSE /\ tx_s' = Append(tx_s, SegmentRow(NextRowId(db.s \o tx_s),
                                                      tx_t[1].id, segment))
                   /\ st_i' = st_i + 1
                   /\ UNCHANGED <<db, st_pc, st_resp, tx_t, st_out>>
  /\ UNCHANGED <<clock, stores, q, stored, notDb>>

\* lines 128-130: conn.commit(), conn.close(), return transcription_id
Store_Commit ==
  /\ st_pc = "segments"
  /\ st_i > Len(st_resp.segments)
  /\ \E fails \in BOOLEAN :
       IF fails
         THEN StoreRaises(st_i) /\ UNCHANGED stored
         ELSE /\ db' = [db EXCEPT !.t = @ \o tx_t, !.s = @ \o tx_s]
              /\ st_out' = [kind |-> "returned", id |-> tx_t[1].id, at |-> st_i]
              /\ stored' = Append(stored, [id |-> tx_t[1].id, resp |-> st_resp])
              /\ st_pc' = "idle" /\ st_resp' = NoResp /\ st_i' = 0
              /\ tx_t' = <<>> /\ tx_s' = <<>>
  /\ UNCHANGED <<clock, stores, q, notDb>>

\* list-transcriptions, lines 517-535: nothing without a database file, else
\* SELECT ... ORDER BY created_at DESC LIMIT ?
list_transcriptions(limit) ==
  /\ \E rows \in Sorted(db.t, CreatedAt(db.t), TRUE) :
       q' = [op |-> "list", arg |-> limit, found |-> db.exists,
             rows |-> IF db.exists THEN Limit(rows, limit) ELSE <<>>,
             segs |-> <<>>]
  /\ UNCHANGED <<db, clock, st_pc, st_resp, st_i, tx_t, tx_s, st_out, stores, stored, notDb>>

\* get-transcription, lines 591-626: ClickException without a database file
\* or without a row of that id, else the row and its segments
get_transcription(transcription_id) ==
  /\ LET mine(r) == r.id = transcription_id
         t == SelectSeq(db.t, mine)
     IN IF ~db.exists \/ t = <<>>
          THEN q' = [op |-> "get", arg |-> transcription_id, found |-> FALSE,
                     rows |-> <<>>, segs |-> <<>>]
          ELSE \E segments \in SegmentsOf(db, transcription_id) :
                 q' = [op |-> "get", arg |-> transcription_id, found |-> TRUE,
                       rows |-> <<t[1]>>, segs |-> segments]
  /\ UNCHANGED <<db, clock, st_pc, st_resp, st_i, tx_t, tx_s, st_out, stores, stored, notDb>>

----------------------------------------------------------------------------
(* The translate command, lines 448-495; it can be run again and again on *)
(* the same database, each run in a process of its own                    *)

\* lines 452-462: without a URL the command raises before the call; a
\* failure returned by send_file_to_api raises a ClickException, an OSError
\* of open() passes through
Tr_Send(is_file, readable, api_url, token, net) ==
  /\ tr_pc = "none"
  /\ IF ~Truthy(api_url)
       THEN /\ tr_pc' = "done" /\ tr_out' = "NoUrl"
            /\ UNCHANGED upVars
       ELSE LET r == send_file_to_api(is_file, readable, api_url, None, token,
                                      None, net) IN
              /\ up_in' = [is_file |-> is_file, readable |-> readable,
                           api_url |-> api_url, env_url |-> None,
                           token |-> token, env_token |-> None, net |-> net]
              /\ up_out' = r
              /\ IF r.ok
                   THEN tr_pc' = "parse" /\ tr_out' = "running"
                   ELSE /\ tr_pc' = "done"
                        /\ tr_out' = IF r.kind = "OSError" THEN "Raised"
                                     ELSE "SendFailed"
  /\ UNCHANGED <<obsVars, cmdVars, dbVars>>

\* lines 464-467: result.json(); a JSONDecodeError raises a ClickException
Tr_Parse ==
  /\ tr_pc = "parse"
  /\ IF json(up_out.text).raised
       THEN tr_pc' = "done" /\ tr_out' = "BadJson"
       ELSE tr_pc' = "status" /\ UNCHANGED tr_out
  /\ UNCHANGED <<obsVars, cmdVars, upVars, dbVars>>

\* lines 469-470: response_data.get("status") != "success" raises a
\* ClickException; a value that is not an object has no get (AttributeError)
Tr_Status ==
  /\ tr_pc = "status"
  /\ LET response_data == json(up_out.text) IN
       IF ~response_data.object
         THEN tr_pc' = "done" /\ tr_out' = "Raised"
       ELSE IF DictGet(response_data.status, None).v # "success"
         THEN tr_pc' = "done" /\ tr_out' = "ApiError"
       ELSE tr_pc' = "show" /\ UNCHANGED tr_out
  /\ UNCHANGED <<obsVars, cmdVars, upVars, dbVars>>

\* lines 472-486: the transcription is printed and copied; the format of
\* processing_time and len(segments) raise for values of the wrong type, and
\* copy_to_clipboard swallows its exceptions
Tr_Show ==
  /\ tr_pc = "show"
  /\ \E raises \in BOOLEAN :
       IF raises THEN tr_pc' = "done" /\ tr_out' = "Raised"
                 ELSE tr_pc' = "store" /\ UNCHANGED tr_out
  /\ UNCHANGED <<obsVars, cmdVars, upVars, dbVars>>

\* lines 488-490: with --store, the call of store_transcription
Tr_Store(store) ==
  /\ tr_pc = "store"
  /\ IF store
       THEN /\ Store_Begin(json(up_out.text).data)
            /\ tr_pc' = "storing" /\ UNCHANGED tr_out
       ELSE /\ tr_pc' = "done" /\ tr_out' = "Shown"
            /\ UNCHANGED <<obsVars, cmdVars, upVars, dbVars>>

\* variant: the exception of store_transcription is not caught
Tr_AfterStore_NoExcept ==
  /\ tr_pc = "storing"
  /\ st_pc = "idle"
  /\ tr_pc' = "done"
  /\ tr_out' = IF st_out.kind = "returned" THEN "Stored" ELSE "Raised"
  /\ UNCHANGED <<obsVars, cmdVars, upVars, dbVars>>

\* lines 491-495: the id is printed, or the exception of store_transcription
\* is caught and printed as a warning; the command ends
Tr_AfterStore ==
  /\ tr_pc = "storing"
  /\ st_pc = "idle"
  /\ tr_pc' = "done"
  /\ tr_out' = IF st_out.kind = "returned" THEN "Stored" ELSE "Warned"
  /\ UNCHANGED <<obsVars, cmdVars, upVars, dbVars>>

\* the process of the command exits; nothing of it is left but the database
Tr_Exit ==
  /\ tr_pc = "done"
  /\ tr_pc' = "none" /\ tr_out' = "none"
  /\ up_in' = NoCall /\ up_out' = NoResult
  /\ UNCHANGED <<obsVars, cmdVars, dbVars>>

----------------------------------------------------------------------------
Next ==
  \/ Connect /\ UNCHANGED extVars
  \/ Disconnect /\ UNCHANGED extVars
  \/ \E arg \in TimeoutArgs, cli \in BOOLEAN : S_Begin(arg, cli) /\ UNCHANGED extVars
  \/ S_Status /\ UNCHANGED extVars
  \/ S_Register /\ UNCHANGED extVars
  \/ S_Start /\ UNCHANGED extVars
  \/ S_Spawn /\ UNCHANGED extVars
  \/ S_Poll /\ UNCHANGED extVars
  \/ Tick /\ UNCHANGED extVars
  \/ Interrupt /\ UNCHANGED extVars
  \/ S_Unreg /\ UNCHANGED extVars
  \/ S_CheckStopped /\ UNCHANGED extVars
  \/ S_ReturnPath /\ UNCHANGED extVars
  \/ UnregisterAgain /\ UNCHANGED extVars
  \/ \E e \in Events : H_Deliver(e) /\ UNCHANGED extVars
  \/ H_Guard /\ UNCHANGED extVars
  \/ H_Flag /\ UNCHANGED extVars
  \/ \E s \in Sessions : M_Enter(s) /\ UNCHANGED extVars
  \/ \E s \in Sessions : M_Check(s) /\ UNCHANGED extVars
  \/ \E s \in Sessions : M_Call(s) /\ UNCHANGED extVars
  \/ RemoteToggle /\ UNCHANGED extVars

Spec == Init /\ [][Next]_vars

\* the same without KeyboardInterrupt: every invocation that has started its
\* recording returns, with the path or by timeout
NextReturn ==
  \/ Connect /\ UNCHANGED extVars
  \/ Disconnect /\ UNCHANGED extVars
  \/ \E arg \in TimeoutArgs, cli \in BOOLEAN : S_Begin(arg, cli) /\ UNCHANGED extVars
  \/ S_Status /\ UNCHANGED extVars
  \/ S_Register /\ UNCHANGED extVars
  \/ S_Start /\ UNCHANGED extVars
  \/ S_Spawn /\ UNCHANGED extVars
  \/ S_Poll /\ UNCHANGED extVars
  \/ Tick /\ UNCHANGED extVars
  \/ S_Unreg /\ UNCHANGED extVars
  \/ S_CheckStopped /\ UNCHANGED extVars
  \/ S_ReturnPath /\ UNCHANGED extVars
  \/ \E e \in Events : H_Deliver(e) /\ UNCHANGED extVars
  \/ H_Guard /\ UNCHANGED extVars
  \/ H_Flag /\ UNCHANGED extVars
  \/ \E s \in Sessions : M_Enter(s) /\ UNCHANGED extVars
  \/ \E s \in Sessions : M_Check(s) /\ UNCHANGED extVars
  \/ \E s \in Sessions : M_Call(s) /\ UNCHANGED extVars
  \/ RemoteToggle /\ UNCHANGED extVars

SpecReturn == Init /\ [][NextReturn]_vars

\* the connection lifecycle of the two controllers on its own
NextConn ==
  \/ Connect /\ UNCHANGED extVars
  \/ Disconnect /\ UNCHANGED extVars
  \/ UnregisterAgain /\ UNCHANGED extVars
  \/ RemoteToggle /\ UNCHANGED extVars
  \/ OC_Connect /\ UNCHANGED extVars
  \/ OC_Disconnect /\ UNCHANGED extVars
  \/ OC_StartRecording /\ UNCHANGED extVars
  \/ OC_StopRecording /\ UNCHANGED extVars

SpecConn == Init /\ [][NextConn]_vars

\* send_file_to_api with every file, URL, token and answer of the server
NextSend ==
  \E f \in BOOLEAN, r \in BOOLEAN, u \in UrlVals, eu \in UrlVals,
     t \in TokenVals, et \in TokenVals, n \in NetOutcomes :
       SendFile(f, r, u, eu, t, et, n)

SpecSend == Init /\ [][NextSend]_vars

\* one run of the record command and one run of main, each on a controller
\* of its own, against the same OBS
NextCmd ==
  \/ Rec_Connect
  \/ \E arg \in TimeoutArgs, cli \in BOOLEAN : Rec_Invoke(arg, cli)
  \/ Rec_AfterWait
  \/ Rec_Send
  \/ Rec_Finally
  \/ Main_Connect
  \/ Main_Action
  \/ Main_Finally
  \/ S_Status /\ UNCHANGED extVars
  \/ S_Register /\ UNCHANGED extVars
  \/ S_Start /\ UNCHANGED extVars
  \/ S_Spawn /\ UNCHANGED extVars
  \/ S_Poll /\ UNCHANGED extVars
  \/ Tick /\ UNCHANGED extVars
  \/ Interrupt /\ UNCHANGED extVars
  \/ S_Unreg /\ UNCHANGED extVars
  \/ S_CheckStopped /\ UNCHANGED extVars
  \/ S_ReturnPath /\ UNCHANGED extVars
  \/ \E e \in Events : H_Deliver(e) /\ UNCHANGED extVars
  \/ H_Guard /\ UNCHANGED extVars
  \/ H_Flag /\ UNCHANGED extVars
  \/ \E s \in Sessions : M_Enter(s) /\ UNCHANGED extVars
  \/ \E s \in Sessions : M_Check(s) /\ UNCHANGED extVars
  \/ \E s \in Sessions : M_Call(s) /\ UNCHANGED extVars
  \/ RemoteToggle /\ UNCHANGED extVars

SpecCmd == Init /\ [][NextCmd]_vars

\* the store and its readers
NextStore ==
  \/ ClockTick /\ UNCHANGED trVars
  \/ init_database /\ UNCHANGED trVars
  \/ \E response_data \in Responses : Store_Begin(response_data) /\ UNCHANGED trVars
  \/ Store_Segment /\ UNCHANGED trVars
  \/ Store_Commit /\ UNCHANGED trVars
  \/ \E limit \in Limits : list_transcriptions(limit) /\ UNCHANGED trVars
  \/ \E transcription_id \in GetIds : get_transcription(transcription_id) /\ UNCHANGED trVars

SpecStore == Init /\ [][NextStore]_vars

\* runs of the translate command, one after the other
NextTr ==
  \/ \E f \in BOOLEAN, r \in BOOLEAN, u \in UrlVals, t \in TokenVals,
        n \in JsonOutcomes : Tr_Send(f, r, u, t, n)
  \/ Tr_Parse
  \/ Tr_Status
  \/ Tr_Show
  \/ \E store \in BOOLEAN : Tr_Store(store)
  \/ Store_Segment /\ UNCHANGED trVars
  \/ Store_Commit /\ UNCHANGED trVars
  \/ Tr_AfterStore
  \/ Tr_Exit

SpecTr == Init /\ [][NextTr]_vars

TypeOK ==
  /\ ws \in {"None", "obj"}
  /\ wsOpen \in BOOLEAN /\ connected \in BOOLEAN
  /\ recorded_file_path \in PathVals
  /\ recording_stopped \in BOOLEAN
  /\ registered \in 0..(MaxSessions + 1)
  /\ pc \in {"idle", "status", "register", "start", "spawn", "wait", "unreg",
             "final", "return"}
  /\ session \in 0..MaxSessions
  /\ hpc \in {"idle", "called", "flag"}
  /\ mpc \in [Sessions -> {"none", "input", "check", "call"}]
  /\ stopCalls \in 0..MaxSessions

\* the calling flow keeps running and the clock keeps advancing while it
\* sleeps in the loop; nothing is assumed of events, input or interrupts
NextLive == Next /\ session' <= MaxLiveSessions

LiveSpec ==
  /\ Init /\ [][NextLive]_vars
  /\ WF_vars(Tick /\ UNCHANGED extVars)
  /\ WF_vars(S_Poll /\ UNCHANGED extVars)
  /\ WF_vars(S_Unreg /\ UNCHANGED extVars)
  /\ WF_vars(S_CheckStopped /\ UNCHANGED extVars)
  /\ WF_vars(S_ReturnPath /\ UNCHANGED extVars)

----------------------------------------------------------------------------
(* Properties *)

\* a step of the calling flow that ends the invocation
Leaves == pc # "idle" /\ pc' = "idle"
\* a step of some stop_on_enter thread
ManualStep == \E s \in Sessions : M_Enter(s) \/ M_Check(s) \/ M_Call(s)

\* C1: when an invocation ends, recorded_file_path is set if and only if it
\* ends in Stopped; within an invocation a path is written at most once, and
\* only by the RecordStateChanged handler.
C1_PathIffStopped ==
  [][ /\ Leaves => ((recorded_file_path' # None) <=> (outcome' = "Stopped"))
      /\ (recorded_file_path' # recorded_file_path /\ recorded_file_path' # None)
           => (H_Guard /\ (pc # "idle" => recorded_file_path = None)) ]_vars

\* C2: a status check that finds the output inactive goes on to register and
\* start; one that finds it active ends with AlreadyRecording, registers no
\* handler, issues no StartRecord and has changed neither recorded_file_path
\* nor recording_stopped (its reset of them found them None and False).
C2_AlreadyRecordingNoMutation ==
  [][ S_Status =>
        /\ (outcome' = "running") => (~remoteActive /\ pc' = "register")
        /\ (outcome' = "AlreadyRecording") =>
             /\ remoteActive
             /\ UNCHANGED <<registered, remoteActive>>
             /\ prePath = None
             /\ preFlag = FALSE ]_vars

\* C3: during one invocation at most one StopRecord request is sent, the one
\* of the manual-stop thread; that thread writes neither the flag nor the
\* path, and an invocation ends in Stopped only with the flag set.
C3_ExactlyOneStop ==
  [][ /\ stopCalls' <= 1
      /\ ManualStep => UNCHANGED <<recording_stopped, recorded_file_path>>
      /\ (Leaves /\ outcome' = "Stopped") => recording_stopped ]_vars

C5_NoHandlerLeak ==
  /\ registered <= 1
  /\ pc = "idle" => registered = 0

\* C6: when no manual-stop trigger has fired, an invocation that ended by
\* timeout has sent no StopRecord request.
C6_TimeoutSendsNoStop ==
  (pc = "idle" /\ outcome = "Timeout" /\ ~enterFired) => stopCalls = 0

C6_Witness ==
  /\ pc = "idle" /\ outcome = "Timeout" /\ ~enterFired /\ stopCalls = 0
  /\ remoteActive /\ connected /\ wsOpen

\* C7: the handler, given a message whose outputState is not the stop state,
\* changes neither recording_stopped nor recorded_file_path and ends.
C7_NonStoppedIgnored ==
  [][ (H_Guard /\ get_event_output_path(hev)[2] # OBS_OUTPUT_STOPPED)
        => (UNCHANGED <<recording_stopped, recorded_file_path>> /\ hpc' = "idle") ]_vars

C7_Witness ==
  /\ hpc = "idle"
  /\ hev = Ev("/tmp/a.wav", "OBS_WEBSOCKET_OUTPUT_STOPPING")
  /\ pc = "wait" /\ ~recording_stopped /\ recorded_file_path = None

\* C8: a path returned by an invocation is the outputPath of a stop event
\* delivered during that invocation.
C8_ReturnedPathIsFresh ==
  [][ (S_ReturnPath /\ Truthy(recorded_file_path))
        => recorded_file_path \in deliveredStopped ]_vars

\* C9: an invocation that waits in the loop ends: it returns the path or
\* None, unless a KeyboardInterrupt ends it.
C9_WaitEnds ==
  (pc = "wait") ~> (pc = "idle" /\ outcome \in {"Stopped", "Timeout", "Interrupted"})

C9_Witness ==
  /\ pc = "idle" /\ outcome = "Timeout" /\ session = 1
  /\ mpc[1] = "input" /\ hev = NoEvent

\* C10: disconnect() of either controller leaves it not connected, also when
\* the library call raises, and does nothing to a controller that is not
\* connected.
C10_DisconnectClears ==
  [][ /\ Disconnect =>
           /\ ~connected'
           /\ ~(ws # "None" /\ connected) => UNCHANGED <<ctrlVars, remoteActive>>
      /\ OC_Disconnect =>
           /\ ~oc_connected'
           /\ ~(oc_ws # "None" /\ oc_connected) => UNCHANGED <<ocVars, remoteActive>> ]_vars

\* C11: connect() of either controller, called on a controller that is not
\* connected, leaves it connected when the library call succeeds; called on a
\* connected controller it is an error: it reports no success and leaves the
\* controller and its connection as they were.
C11_ConnectWhileConnectedIsError ==
  [][ /\ Connect =>
           /\ (~connected /\ wsOpen') => connected'
           /\ connected => UNCHANGED ctrlVars
      /\ OC_Connect =>
           /\ (~oc_connected /\ oc_wsOpen') => (oc_connected' /\ oc_last' = "connect")
           /\ oc_connected => (oc_last' # "connect" /\ UNCHANGED ocVars) ]_vars

\* C12: every step that sends a request to OBS (GetRecordStatus, StartRecord,
\* StopRecord) is taken with connected true, the StopRecord of a stop_on_enter
\* thread included; start_and_wait_for_stop on a controller that is not
\* connected ends with NotConnected at once.
C12_NoRequestUnlessConnected ==
  [][ /\ (S_Status \/ S_Start \/ \E s \in Sessions : M_Call(s)) => connected
      /\ ((\E arg \in TimeoutArgs, cli \in BOOLEAN : S_Begin(arg, cli)) /\ ~connected)
           => (outcome' = "NotConnected" /\ pc' = "idle") ]_vars

\* C13: a record command that connected, and a run of main that connected,
\* end with their controller not connected, whatever happened in between.
C13_CommandsEndDisconnected ==
  /\ cmd = "done" => ~connected
  /\ oc_cmd = "done" => ~oc_connected

\* C14: send_file_to_api called with a path that is not an existing regular
\* file returns the file-not-found failure and has not called requests.post,
\* whatever the URL, the token and the environment are.
C14_MissingFileNoNetwork ==
  (up_out.kind # "none" /\ ~up_in.is_file)
    => (~up_out.ok /\ up_out.kind = "nofile" /\ up_out.posts = 0)

C14_Witness ==
  /\ ~up_in.is_file /\ up_out.kind = "nofile" /\ up_out.posts = 0
  /\ ~Truthy(up_in.api_url) /\ ~Truthy(up_in.env_url)
  /\ up_in.token = "secret"

\* C15: when the server answers with a status outside 200..299,
\* send_file_to_api returns a failure that carries the status code and the
\* first BodyPrefix characters of the body; it returns success only for a
\* status in 200..299; a RequestException of requests.post is returned as a
\* failure.
C15_Only2xxSucceeds ==
  (up_out.posts > 0) =>
    /\ (~up_in.net.raised /\ up_in.net.status_code \notin 200..299) =>
         /\ ~up_out.ok
         /\ up_out.kind = "api"
         /\ up_out.status_code = up_in.net.status_code
         /\ Len(up_out.text) <= BodyPrefix
         /\ up_out.text = SubSeq(up_in.net.text, 1, Len(up_out.text))
    /\ up_out.ok => (~up_in.net.raised /\ up_in.net.status_code \in 200..299)
    /\ up_in.net.raised => (~up_out.ok /\ up_out.kind = "transport")

\* the number of entries of a sequence of segment rows with segment_id v
CountId(segs, v) == Cardinality({i \in 1..Len(segs) : segs[i].segment_id = v})
\* the same for the segments of a response (an absent "id" counts as 0)
CountSubmitted(segments, v) ==
  Cardinality({i \in 1..Len(segments) : DictGet(segments[i].id, 0).v = v})

C17_ListNewestFirst ==
  [][ \A limit \in Limits :
        list_transcriptions(limit) =>
          /\ Len(q'.rows) <= (IF limit < 0 THEN 0 ELSE limit)
          /\ \A i \in 1..(Len(q'.rows) - 1) :
               q'.rows[i].created_at >= q'.rows[i + 1].created_at
          /\ (limit >= 1 /\ stored # <<>>)
               => q'.rows[1].id = stored[Len(stored)].id ]_vars

\* C18: every committed segment row refers to a committed transcriptions
\* row, and segment rows are committed only by the store_transcription call
\* that commits their parent row with them.
C18_SegmentsHaveParent ==
  /\ [](\A i \in 1..Len(db.s) :
          \E j \in 1..Len(db.t) : db.t[j].id = db.s[i].transcription_id)
  /\ [][ (db'.s # db.s) =>
           /\ Store_Commit
           /\ Len(db'.t) = Len(db.t) + 1
           /\ SubSeq(db'.s, 1, Len(db.s)) = db.s
           /\ \A i \in (Len(db.s) + 1)..Len(db'.s) :
                db'.s[i].transcription_id = db'.t[Len(db'.t)].id ]_vars

C18_Witness ==
  /\ Len(db.t) = 1 /\ Len(db.s) = 2
  /\ db.s[1].transcription_id = db.t[1].id /\ db.s[2].transcription_id = db.t[1].id
  /\ st_out.kind = "raised" /\ st_out.at = 2
  /\ q.op = "list" /\ q.found

\* C19: a store_transcription call whose INSERT (or commit) fails ends with
\* an exception and leaves the committed rows as they were; every committed
\* transcriptions row was returned by a call and has all the segments that
\* were submitted with it.
C19_NoPartialPersist ==
  /\ [](\A j \in 1..Len(db.t) :
          \E k \in 1..Len(stored) :
            /\ stored[k].id = db.t[j].id
            /\ Len(SelectSeq(db.s, LAMBDA r : r.transcription_id = db.t[j].id))
                 = Len(stored[k].resp.segments))
  /\ [][ ((Store_Segment \/ Store_Commit) /\ st_pc' = "idle" /\ stored' = stored)
           => (st_out'.kind = "raised" /\ db'.t = db.t /\ db'.s = db.s) ]_vars

C19_Witness ==
  /\ st_out.kind = "raised" /\ st_out.at = 2
  /\ Len(db.t) = 1 /\ Len(stored) = 1 /\ stores = 2
  /\ db.s = <<>>

\* C20: a stop_on_enter thread that finds recording_stopped true at its test
\* ends without a StopRecord request, and no StopRecord request is sent
\* while recording_stopped is true, however the handler and the thread
\* interleave.
C20_NoStopAfterFlag ==
  [][ \A s \in Sessions :
        /\ (M_Check(s) /\ recording_stopped) => mpc'[s] = "none"
        /\ (M_Call(s) /\ wsOpen) => ~recording_stopped ]_vars

\* C21: a StartRecord call that raises ends the invocation with StartFailed:
\* the handler registered on the line before is unregistered, no
\* stop_on_enter thread has been started for the invocation, nothing is
\* returned and recorded_file_path is not set.
C21_FailedStartTearsDown ==
  [][ (S_Start /\ outcome' = "StartFailed") =>
        /\ registered > 0 /\ registered' = 0
        /\ pc' = "idle" /\ result' = None
        /\ mpc' = mpc /\ mpc[session] = "none"
        /\ recorded_file_path' = None ]_vars

\* a position of the calling flow between the successful StartRecord and the
\* return
Active == pc \in {"spawn", "wait", "unreg", "final", "return"}

\* C22: while an invocation is past its StartRecord and has not returned,
\* recording_stopped and recorded_file_path are changed only by steps of
\* _on_record_state_changed; the stop_on_enter threads change neither, and
\* the polling loop changes neither.
C22_OnlyHandlerWrites ==
  [][ (<<recording_stopped, recorded_file_path>>'
         # <<recording_stopped, recorded_file_path>>) =>
        /\ Active => (H_Guard \/ H_Flag)
        /\ ~(ManualStep \/ S_Poll \/ Tick) ]_vars

C22_Witness ==
  /\ pc = "wait" /\ session = 1
  /\ recording_stopped /\ recorded_file_path = "/tmp/a.wav"
  /\ enterFired /\ stopCalls = 1 /\ mpc[1] = "none"
  /\ elapsed > 0

\* C23: the record command calls send_file_to_api only after
\* start_and_wait_for_stop has returned a non-empty path; when the call
\* returned None by timeout the command sends nothing and ends with the
\* ClickException for the missing path.
C23_UploadOnlyWithPath ==
  /\ [](cmd = "send" => (pc = "idle" /\ outcome = "Stopped" /\ Truthy(result)))
  /\ []((cmd \in {"finally", "done"} /\ outcome = "Timeout") => cmdOut = "NoPath")
  /\ [][ Rec_Send => (outcome = "Stopped" /\ Truthy(result)) ]_vars

C23_Witness ==
  /\ cmd = "done" /\ cmdOut = "NoPath"
  /\ outcome = "Timeout" /\ result = None
  /\ remoteActive /\ ~connected

\* C24: the ids returned by store_transcription calls on one database are
\* strictly increasing in the order of the calls, hence pairwise distinct,
\* also when calls that failed lie between the calls that returned.
C24_IdsIncrease ==
  /\ [](\A i, j \in 1..Len(stored) : i < j => stored[i].id < stored[j].id)
  /\ [][ (stored' # stored) =>
           /\ st_out'.kind = "returned"
           /\ st_out'.id = stored'[Len(stored')].id
           /\ \A i \in 1..Len(stored) : stored[i].id < st_out'.id ]_vars

\* a call has returned, the next one has failed, and a third one has got its
\* id (line 113) and is about to commit
C24_Witness ==
  /\ stores = 3 /\ Len(stored) = 1
  /\ st_out.kind = "raised"
  /\ st_pc = "segments" /\ st_i > Len(st_resp.segments)
  /\ tx_t[1].id > stored[1].id

\* C25: committed rows never change: init_database, list-transcriptions and
\* get-transcription leave the rows of both tables as they are, and the only
\* step that changes them is the commit of a store_transcription call, which
\* appends one transcriptions row and the segments of that row and alters no
\* row that was there.
C25_RowsImmutable ==
  [][ /\ (q' # q \/ db'.exists # db.exists) => (db'.t = db.t /\ db'.s = db.s)
      /\ (db'.t # db.t \/ db'.s # db.s) =>
           /\ Store_Commit
           /\ Len(db'.t) = Len(db.t) + 1
           /\ \A j \in 1..Len(db.t) : db'.t[j] = db.t[j]
           /\ Len(db'.s) = Len(db.s) + Len(st_resp.segments)
           /\ \A i \in 1..Len(db.s) : db'.s[i] = db.s[i] ]_vars

C25_Witness ==
  /\ Len(db.t) = 2 /\ Len(db.s) = 4
  /\ stored[1].resp = Resp(Field("hola"), <<Seg(Field(2)), Seg(Field(1))>>)
  /\ db.t[1] = TRow(stored[1].id, "hola", 0)
  /\ db.s[1].segment_id = 2 /\ db.s[2].segment_id = 1
  /\ q.op = "get" /\ q.arg = stored[1].id /\ q.found
  /\ clock = 1

\* C26: in translate, a store_transcription call that raises does not end
\* the command with an error: the command ends as after a store that
\* returned, except that it has printed the warning; the transcription had
\* been printed before the store was called.
C26_StoreFailureIsWarning ==
  /\ [][ (tr_pc = "storing" /\ tr_pc' # "storing") =>
           /\ tr_pc' = "done"
           /\ st_out.kind \in {"raised", "returned"}
           /\ tr_out' = IF st_out.kind = "raised" THEN "Warned" ELSE "Stored" ]_vars
  /\ [](tr_pc \in {"store", "storing"} =>
          (up_out.ok /\ json(up_out.text).object /\ tr_out = "running"))

C26_Witness ==
  /\ tr_pc = "done" /\ tr_out = "Warned"
  /\ st_out = [kind |-> "raised", id |-> 0, at |-> 2]
  /\ up_out.status_code = 200
  /\ Len(db.t) = 1 /\ stores = 2

\* the answer of the server was a 2xx response
Uploaded == up_out.kind = "response" /\ up_out.status_code \in 200..299

\* C30: translate calls store_transcription, and the database changes, only
\* in a run whose upload succeeded (a 2xx response), whose body parsed as
\* JSON, and whose "status" is "success".
C30_PersistOnlyOnSuccess ==
  [][ (stores' # stores \/ db' # db) =>
        /\ Uploaded
        /\ ~json(up_out.text).raised
        /\ DictGet(json(up_out.text).status, None).v = "success" ]_vars

\* C27: StartRecord is sent with the handler already registered, and from
\* the StartRecord that succeeded until the flow unregisters the handler
\* (line 254) the handler is registered on an open connection, so that a
\* RecordStateChanged message that arrives is passed to it.
C27_RegisteredBeforeStart ==
  /\ [](pc \in {"start", "spawn", "wait", "unreg"} => registered > 0)
  /\ [](pc \in {"spawn", "wait", "unreg"} => wsOpen)
  /\ [][ (pc = "start" /\ pc' # "start") =>
           /\ S_Start /\ registered > 0
           /\ pc' = "spawn" => (remoteActive' /\ registered' > 0) ]_vars

C27_Witness ==
  /\ pc = "wait" /\ session = 1 /\ registered = 1
  /\ hpc = "called" /\ hev = Ev("/tmp/a.wav", OBS_OUTPUT_STOPPED)
  /\ deliveredStopped = {"/tmp/a.wav"}
  /\ ~recording_stopped /\ recorded_file_path = None

\* C28: the stop_on_enter thread of an invocation that has returned, with
\* the path or by timeout, sends no StopRecord request, whether disconnect()
\* has run or not, and neither does the thread of an earlier invocation
\* while a later one runs on the same controller.
C28_AbandonedTaskSilent ==
  [][ \A s \in Sessions :
        (M_Call(s) /\ wsOpen) =>
          ~ \/ (s = session /\ pc = "idle" /\ outcome \in {"Stopped", "Timeout"})
            \/ s < session ]_vars

\* a message of the library that gives the handler no path: no datain, or
\* an outputPath that is missing or empty
Pathless(message) ==
  message \in Events /\ ~Truthy(get_event_output_path(message)[1])

\* C29: the handler, given a stop message without a path, changes neither
\* recording_stopped nor recorded_file_path; and an invocation that waits
\* with the flag unset after such a message ends by timeout with None (or
\* by a KeyboardInterrupt) unless a stop message with a path is delivered.
C29_PathlessStopIgnored ==
  /\ [][ (H_Guard /\ Pathless(hev)) =>
           (UNCHANGED <<recording_stopped, recorded_file_path>> /\ hpc' = "idle") ]_vars
  /\ (pc = "wait" /\ hpc = "idle" /\ Pathless(hev) /\ ~recording_stopped
        /\ deliveredStopped = {})
       ~> \/ deliveredStopped # {}
          \/ (pc = "idle" /\ outcome = "Timeout" /\ result = None)
          \/ (pc = "idle" /\ outcome = "Interrupted")

C29_Witness ==
  /\ pc = "idle" /\ outcome = "Timeout" /\ result = None
  /\ hpc = "idle" /\ hev = Ev("", OBS_OUTPUT_STOPPED)
  /\ ~recording_stopped /\ recorded_file_path = None
  /\ ~remoteActive

\* C31: the timeout the wait uses is computed from the argument of
\* start_and_wait_for_stop (line 220): a positive argument is used as given,
\* a missing argument gives DEFAULT_TIMEOUT_SECONDS, and an argument of 0
\* gives a timeout of 0, so that the loop of lines 252-253 is left at once.
C31_DeadlineFromTimeout ==
  [][ (pc = "idle" /\ pc' = "status") =>
        \A arg \in TimeoutArgs, cli \in BOOLEAN :
          S_Begin(arg, cli) =>
            timeout_seconds' =
              IF arg = <<>> THEN DEFAULT_TIMEOUT_SECONDS ELSE arg[1] ]_vars

\* C32: in every state of an invocation, recording_stopped implies that
\* recorded_file_path is set, and an invocation that left its loop with the
\* flag set (outcome Stopped) returned a path, not None.
C32_FlagImpliesPath ==
  /\ (pc # "idle" /\ recording_stopped) => recorded_file_path # None
  /\ (pc = "idle" /\ outcome = "Stopped") => result # None

====
